---- MODULE Spec2Model ----
(***************************************************************************)
(* Model of update_locales.py: the recursive, order-preserving merge of an *)
(* update document into a locale document (merge_recursive), and the file  *)
(* layer around it (load_json, save_json, process_file, main).             *)
(*                                                                         *)
(* Python dicts are objects: a variable or a dict slot holds a reference.  *)
(* The model keeps a heap of dict objects; a dict is the sequence of its   *)
(* items in insertion order, an item is <<key, value>>, and a value is a   *)
(* terminal or a reference to a dict of the heap.  A document as written   *)
(* in a file (or compared by content) is a tree: the same items with the   *)
(* nested dicts inlined.  A Python str built by an f-string is the         *)
(* sequence of the pieces it is concatenated from.                         *)
(***************************************************************************)
EXTENDS Integers, Sequences, FiniteSets, TLC

VARIABLES
    heap,          \* the dict objects of the process
    target,        \* in-memory merges: the object the target refers to
    updates,       \* in-memory merges: the objects the updates refer to
    calls,         \* in-memory merges: the updates merged so far, in order
    added_keys,    \* in-memory merges: what the last merge returned
    preT,          \* the target's content before the last merge
    passed,        \* each update's content when it was last passed
    disk,          \* the files: path -> content
    disk0,         \* the files as the run found them
    argv,          \* sys.argv[1:]
    pc,            \* where main is
    update_files,  \* main's update_files
    w,             \* one process_file call per update file
    results,       \* main's results
    summary        \* main's successful, failed and total_keys

mvars == <<target, updates, calls, added_keys, preT, passed>>
bvars == <<disk, disk0, argv, pc, update_files, w, results, summary>>
vars == <<heap, target, updates, calls, added_keys, preT, passed,
          disk, disk0, argv, pc, update_files, w, results, summary>>

----------------------------------------------------------------------------
(* Bounds of the model.                                                    *)

\* Largest number of items (over all nesting levels) of a generated document.
MaxSize == 2
\* Largest number of merge calls made on one in-memory target.
MaxCalls == 2

Keys == {"a", "b"}
\* Terminal values a locale document starts with: the falsy ones and a string.
TargetTerminals == {"null", "false", "[]", "1"}
\* Terminal values of an update document.
UpdateTerminals == {"1", "2"}

----------------------------------------------------------------------------
(* Values.                                                                 *)

Term(v) == [kind |-> "term", val |-> v, ref |-> 0, kids |-> <<>>]
Ref(id) == [kind |-> "dict", val |-> "", ref |-> id, kids |-> <<>>]
Tree(items) == [kind |-> "dict", val |-> "", ref |-> 0, kids |-> items]

\* isinstance(value, dict)
IsDict(value) == value.kind = "dict"

KeysOf(d) == [i \in 1..Len(d) |-> d[i][1]]
KeySet(d) == {d[i][1] : i \in 1..Len(d)}

\* key in d
KeyIn(d, key) == key \in KeySet(d)

IndexOf(d, key) == CHOOSE i \in 1..Len(d) : d[i][1] = key

\* d[key]
GetItem(d, key) == d[IndexOf(d, key)][2]

\* A store that never looks for the key: every store adds an item.
SetItemAppend(d, key, value) == Append(d, <<key, value>>)

\* A store that drops the old item and adds the new one at the end.
SetItemMoveToEnd(d, key, value) ==
    Append(SelectSeq(d, LAMBDA e : e[1] # key), <<key, value>>)

\* d[key] = value on an insertion-ordered dict: an existing key keeps its
\* position, a new key goes to the end.
SetItem(d, key, value) ==
    IF KeyIn(d, key)
    THEN [d EXCEPT ![IndexOf(d, key)] = <<key, value>>]
    ELSE Append(d, <<key, value>>)

----------------------------------------------------------------------------
(* Documents as trees, and the bounded sets the inputs are drawn from.     *)

RECURSIVE TreesOfSize(_, _)
\* The documents with exactly n items in all, terminals drawn from terms.
TreesOfSize(n, terms) ==
    IF n = 0 THEN {<<>>}
    ELSE UNION {
           UNION {
             { <<e>> \o rest :
                 e \in ({<<k, Tree(kids)>> : k \in Keys,
                                             kids \in TreesOfSize(s, terms)}
                        \cup (IF s = 0
                              THEN {<<k, Term(v)>> : k \in Keys, v \in terms}
                              ELSE {})) }
             : rest \in TreesOfSize(n - 1 - s, terms) }
           : s \in 0..(n - 1) }

DistinctKeys(d) == \A i, j \in 1..Len(d) : i # j => d[i][1] # d[j][1]

RECURSIVE WellFormed(_)
\* A parsed JSON object never holds a key twice, at any level.
WellFormed(d) ==
    /\ DistinctKeys(d)
    /\ \A i \in 1..Len(d) : IsDict(d[i][2]) => WellFormed(d[i][2].kids)

Docs(terms) ==
    {d \in UNION {TreesOfSize(n, terms) : n \in 0..MaxSize} : WellFormed(d)}

TargetDocs == Docs(TargetTerminals)
UpdateDocs == Docs(UpdateTerminals)

----------------------------------------------------------------------------
(* The heap of dict objects.                                               *)

RECURSIVE Alloc(_, _)
RECURSIVE AllocItems(_, _, _, _)
\* OrderedDict(pairs) over the pairs of one JSON object: each nested object
\* is a dict of its own, and a key the text repeats keeps its first position
\* and its last value.
AllocItems(h, items, i, d) ==
    IF i > Len(items) THEN [heap |-> h, dict |-> d]
    ELSE LET key == items[i][1]
             value == items[i][2]
         IN IF IsDict(value)
            THEN LET sub == Alloc(h, value.kids)
                 IN AllocItems(sub.heap, items, i + 1,
                               SetItem(d, key, Ref(sub.id)))
            ELSE AllocItems(h, items, i + 1, SetItem(d, key, value))

\* json.load(f, object_pairs_hook=OrderedDict) on a JSON object: every
\* object of the text becomes a fresh dict, shared with nothing.
Alloc(h, items) ==
    LET r == AllocItems(h, items, 1, <<>>)
    IN [heap |-> Append(r.heap, r.dict), id |-> Len(r.heap) + 1]

RECURSIVE Deep(_, _)
\* The content of the dict object id, as json.dump walks it: the nested
\* dicts followed through their references.
Deep(h, id) ==
    [i \in 1..Len(h[id]) |->
        IF IsDict(h[id][i][2])
        THEN <<h[id][i][1], Tree(Deep(h, h[id][i][2].ref))>>
        ELSE h[id][i]]

----------------------------------------------------------------------------
(* merge_recursive.                                                        *)

\* The path of a record without the path of its parent.
CurrentPathKeyOnly(path, key) == <<key>>

\* current_path = f"{path}.{key}" if path else key
CurrentPath(path, key) ==
    IF path # <<>> THEN path \o <<".", key>> ELSE <<key>>

\* Absence by truthiness: not target.get(key)
NotInTargetTruthy(d, key) ==
    \/ ~KeyIn(d, key)
    \/ IF IsDict(GetItem(d, key))
       THEN FALSE
       ELSE GetItem(d, key).val \in {"null", "false", "[]"}

\* key not in target
NotInTarget(d, key) == ~KeyIn(d, key)

\* A merge that never recurses: a nested mapping is replaced wholesale.
BothDictsNever(value, current) == FALSE

\* isinstance(value, dict) and isinstance(target[key], dict)
BothDicts(value, current) == IsDict(value) /\ IsDict(current)

\* A store that keeps the value of a key the target holds already.
StoreKeepExisting(h, t, key, value) ==
    IF KeyIn(h[t], key) THEN h
    ELSE [h EXCEPT ![t] = Append(h[t], <<key, value>>)]

\* target[key] = value, with value the very object the update holds
Store(h, t, key, value) == [h EXCEPT ![t] = SetItem(h[t], key, value)]

\* added_keys.append(current_path)
AddedRecord(current_path) == current_path

\* added_keys.append(f"{current_path} (updated)")
UpdatedRecord(current_path) == current_path \o <<" (updated)">>

RECURSIVE MergeLoop(_, _, _, _, _, _)
\* The loop of merge_recursive from the i-th item of updates on, over the
\* heap h; t and u are the objects target and updates refer to.
MergeLoop(h, t, u, i, path, keys) ==
    IF i > Len(h[u]) THEN [heap |-> h, keys |-> keys]
    ELSE LET key == h[u][i][1]
             value == h[u][i][2]
             current_path == CurrentPath(path, key)
         IN IF NotInTarget(h[t], key)
            THEN MergeLoop(Store(h, t, key, value), t, u, i + 1, path,
                           Append(keys, AddedRecord(current_path)))
            ELSE IF BothDicts(value, GetItem(h[t], key))
            THEN LET nested == MergeLoop(h, GetItem(h[t], key).ref, value.ref,
                                         1, current_path, <<>>)
                 IN MergeLoop(nested.heap, t, u, i + 1, path,
                              keys \o nested.keys)
            ELSE MergeLoop(Store(h, t, key, value), t, u, i + 1, path,
                           Append(keys, UpdatedRecord(current_path)))

merge_recursive(h, t, u) == MergeLoop(h, t, u, 1, <<>>, <<>>)

----------------------------------------------------------------------------
(* In-memory merges: one target, the update documents merged into it.      *)

MergeInit(tdocs, udocs) ==
    \E T \in tdocs, U \in udocs :
        LET a == Alloc(<<>>, T)
            RECURSIVE AllocAll(_, _, _)
            AllocAll(h, i, ids) ==
                IF i > Len(U) THEN [heap |-> h, ids |-> ids]
                ELSE LET b == Alloc(h, U[i])
                     IN AllocAll(b.heap, i + 1, Append(ids, b.id))
            all == AllocAll(a.heap, 1, <<>>)
        IN /\ heap = all.heap
           /\ target = a.id
           /\ updates = all.ids
           /\ calls = <<>>
           /\ added_keys = <<>>
           /\ preT = T
           /\ passed = [i \in 1..Len(U) |-> <<>>]

BatchIdle ==
    /\ disk = <<>> /\ disk0 = <<>> /\ argv = <<>> /\ pc = "off"
    /\ update_files = <<>> /\ w = <<>> /\ results = <<>> /\ summary = <<>>

\* One call merge_recursive(target, updates[i]).
MergeCall(i) ==
    /\ Len(calls) < MaxCalls
    /\ LET r == merge_recursive(heap, target, updates[i])
       IN /\ heap' = r.heap
          /\ added_keys' = r.keys
          /\ preT' = Deep(heap, target)
          /\ passed' = [passed EXCEPT ![i] = Deep(heap, updates[i])]
          /\ calls' = Append(calls, i)
    /\ UNCHANGED <<target, updates>>
    /\ UNCHANGED bvars

Init == MergeInit(TargetDocs, {<<U>> : U \in UpdateDocs}) /\ BatchIdle

Next == \E i \in DOMAIN updates : MergeCall(i)

Spec == Init /\ [][Next]_vars

----------------------------------------------------------------------------
(* Reading the state: the documents by content, paths and records.         *)

\* The target document as it is now, by content.
Result == Deep(heap, target)

Called == Len(calls) > 0

\* The update of the last call, as it was when it was passed.
LastU == passed[calls[Len(calls)]]

Range(s) == {s[i] : i \in 1..Len(s)}

RECURSIVE Dotted(_)
\* A key path written with dots from the root: a.b.c
Dotted(p) ==
    IF Len(p) = 1 THEN <<p[1]>>
    ELSE Dotted(SubSeq(p, 1, Len(p) - 1)) \o <<".", p[Len(p)]>>

AddedRec(p) == Dotted(p)
UpdatedRec(p) == Dotted(p) \o <<" (updated)">>
IsUpdatedRec(r) == Len(r) > 0 /\ r[Len(r)] = " (updated)"

\* The value a document holds for key k is a mapping.
DictAt(d, k) == KeyIn(d, k) /\ IsDict(GetItem(d, k))

KidsAt(d, k) == GetItem(d, k).kids

RECURSIVE HasPath(_, _)
HasPath(d, p) ==
    /\ Len(p) > 0
    /\ KeyIn(d, p[1])
    /\ Len(p) > 1 => /\ IsDict(GetItem(d, p[1]))
                     /\ HasPath(KidsAt(d, p[1]), Tail(p))

RECURSIVE ValueAt(_, _)
ValueAt(d, p) ==
    IF Len(p) = 1 THEN GetItem(d, p[1]) ELSE ValueAt(KidsAt(d, p[1]), Tail(p))

RECURSIVE Paths(_)
\* Every key path of a document.
Paths(d) ==
    UNION {{<<d[i][1]>>} \cup
           (IF IsDict(d[i][2])
            THEN {<<d[i][1]>> \o q : q \in Paths(d[i][2].kids)}
            ELSE {}) : i \in 1..Len(d)}

ProperPrefixes(p) == {SubSeq(p, 1, n) : n \in 1..(Len(p) - 1)}

\* null, false, an empty sequence, an empty mapping
Falsy(v) ==
    IF IsDict(v) THEN v.kids = <<>> ELSE v.val \in {"null", "false", "[]"}

\* Some dict object is held by the target and by an update at once.
Shared ==
    \E i \in DOMAIN updates, m \in 1..Len(heap[target]) :
        \E n \in 1..Len(heap[updates[i]]) :
            /\ IsDict(heap[target][m][2])
            /\ heap[target][m][2] = heap[updates[i]][n][2]

----------------------------------------------------------------------------
(* C1: idempotence.                                                        *)

\* C1: when the same update is merged into the target a second time, the
\* target's content and key order stay exactly as the first merge left them
\* and every change record of the second merge is an Updated record.
Idempotent ==
    (Len(calls) >= 2 /\ calls[Len(calls)] = calls[Len(calls) - 1]) =>
        /\ Result = preT
        /\ \A r \in Range(added_keys) : IsUpdatedRec(r)

\* A second merge that went into a nested dict and returned records.
IdempotentWitness ==
    /\ Len(calls) >= 2 /\ calls[Len(calls)] = calls[Len(calls) - 1]
    /\ Shared
    /\ Len(added_keys) >= 1
    /\ \E r \in Range(added_keys) : Len(r) > 2

----------------------------------------------------------------------------
(* C2: order preservation.                                                 *)

\* The keys of U that Tb does not hold, in U's order.
NewKeys(Tb, U) == SelectSeq(KeysOf(U), LAMBDA k : ~KeyIn(Tb, k))

RECURSIVE OrderKept(_, _, _)
\* At this level the result's keys are Tb's keys, in place, followed by the
\* new keys of U in U's order; and so at every level below.
OrderKept(Tb, U, R) ==
    /\ KeysOf(R) = KeysOf(Tb) \o NewKeys(Tb, U)
    /\ \A k \in KeySet(R) :
        IsDict(GetItem(R, k)) =>
            OrderKept(IF DictAt(Tb, k) THEN KidsAt(Tb, k) ELSE <<>>,
                      IF DictAt(U, k) THEN KidsAt(U, k) ELSE <<>>,
                      KidsAt(R, k))

\* C2: at every nesting level of the merged document the keys the target
\* held before the merge keep their positions, also when their value is
\* overwritten, and the keys taken from the update follow them in the
\* update's iteration order.
OrderPreserved == Called => OrderKept(preT, LastU, Result)

\* A merge whose update names a new key first and then the target's only
\* key, which it overwrites: the new key still lands after the old one.
OrderPreservedWitness ==
    /\ Called
    /\ Len(preT) = 1 /\ Len(LastU) = 2
    /\ LastU[2][1] = preT[1][1]
    /\ UpdatedRec(<<preT[1][1]>>) \in Range(added_keys)
    /\ KeysOf(Result) = <<LastU[2][1], LastU[1][1]>>

----------------------------------------------------------------------------
(* C3: completeness, the update wins.                                      *)

RECURSIVE Covers(_, _, _)
\* Every key of U is a key of R; where Tb and U both hold a mapping the
\* mappings are merged, and everywhere else R holds U's value.
Covers(Tb, U, R) ==
    \A i \in 1..Len(U) :
        LET k == U[i][1]
            v == U[i][2]
        IN /\ KeyIn(R, k)
           /\ IF IsDict(v) /\ DictAt(Tb, k)
              THEN /\ IsDict(GetItem(R, k))
                   /\ Covers(KidsAt(Tb, k), v.kids, KidsAt(R, k))
              ELSE GetItem(R, k) = v

\* C3: after a merge every key path of the update is a path of the target,
\* every terminal of the update is the value at its path, and so is every
\* value of the update that was inserted as new or replaced a non-mapping.
UpdateWins ==
    Called =>
        /\ \A p \in Paths(LastU) :
              /\ HasPath(Result, p)
              /\ ~IsDict(ValueAt(LastU, p)) =>
                    ValueAt(Result, p) = ValueAt(LastU, p)
        /\ Covers(preT, LastU, Result)

\* A merge that overwrote a terminal with a different terminal, one level
\* down.
UpdateWinsWitness ==
    /\ Called
    /\ \E p \in Paths(LastU) :
          /\ Len(p) = 2
          /\ HasPath(preT, p)
          /\ ~IsDict(ValueAt(LastU, p))
          /\ ValueAt(preT, p) # ValueAt(LastU, p)

----------------------------------------------------------------------------
(* C4: keys of the target alone.                                           *)

\* C4 as stated: every key path of the target that the update does not
\* hold is still there after the merge, with the value it had.
DisjointKeysKept ==
    Called =>
        \A p \in Paths(preT) :
            ~HasPath(LastU, p) =>
                /\ HasPath(Result, p)
                /\ ValueAt(Result, p) = ValueAt(preT, p)

\* The update holds a non-mapping at a proper prefix of p.
Overwritten(U, p) ==
    \E q \in ProperPrefixes(p) : HasPath(U, q) /\ ~IsDict(ValueAt(U, q))

\* C4 amended: every key path of the target that the update does not hold
\* is still there after the merge, with the value it had, unless the update
\* holds a non-mapping value at a proper prefix of the path.
DisjointKeysKeptUnlessReplaced ==
    Called =>
        \A p \in Paths(preT) :
            (~HasPath(LastU, p) /\ ~Overwritten(LastU, p)) =>
                /\ HasPath(Result, p)
                /\ ValueAt(Result, p) = ValueAt(preT, p)

\* A merge into a nested mapping that holds a key the update does not.
DisjointKeysWitness ==
    /\ Called
    /\ \E p \in Paths(preT) :
          /\ Len(p) = 2
          /\ ~HasPath(LastU, p)
          /\ HasPath(LastU, <<p[1]>>)
          /\ IsDict(ValueAt(LastU, <<p[1]>>))
          /\ KidsAt(LastU, p[1]) # <<>>

----------------------------------------------------------------------------
(* C5: the change records.                                                 *)

RECURSIVE Expected(_, _, _)
\* The records the contract asks for, in depth-first order of U: Added for
\* a key Tb does not hold, the records of the level below for a key at
\* which both hold a mapping, Updated for any other key.
Expected(Tb, U, p) ==
    IF U = <<>> THEN <<>>
    ELSE LET k == U[1][1]
             v == U[1][2]
             here == IF ~KeyIn(Tb, k) THEN <<AddedRec(Append(p, k))>>
                     ELSE IF IsDict(v) /\ DictAt(Tb, k)
                     THEN Expected(KidsAt(Tb, k), v.kids, Append(p, k))
                     ELSE <<UpdatedRec(Append(p, k))>>
         IN here \o Expected(Tb, Tail(U), p)

RecordsMismatchWitness ==
    /\ Called
    /\ \E k \in Keys :
          /\ KeyIn(preT, k) /\ ~IsDict(GetItem(preT, k)) /\ DictAt(LastU, k)
          /\ KidsAt(LastU, k) # <<>>
          /\ added_keys = <<UpdatedRec(<<k>>)>>

----------------------------------------------------------------------------
(* C6: absence is key membership.                                          *)

Count(s, x) == Cardinality({i \in 1..Len(s) : s[i] = x})

RECURSIVE FalsyPresent(_, _, _, _)
\* At every merged level: a key the target holds with a falsy value and
\* the update names is not recorded as Added and not appended again; it is
\* recorded as Updated and holds the update's value or, when both values
\* are mappings, it is merged and has no record of its own.
FalsyPresent(Tb, U, R, p) ==
    \A k \in KeySet(Tb) \cap KeySet(U) :
        LET path == Append(p, k)
        IN /\ Falsy(GetItem(Tb, k)) =>
                /\ AddedRec(path) \notin Range(added_keys)
                /\ Count(KeysOf(R), k) = 1
                /\ IndexOf(R, k) = IndexOf(Tb, k)
                /\ IF DictAt(Tb, k) /\ DictAt(U, k)
                   THEN /\ UpdatedRec(path) \notin Range(added_keys)
                        /\ GetItem(R, k) = GetItem(U, k)
                        /\ \A j \in KeySet(KidsAt(U, k)) :
                              AddedRec(Append(path, j)) \in Range(added_keys)
                   ELSE /\ Count(added_keys, UpdatedRec(path)) = 1
                        /\ GetItem(R, k) = GetItem(U, k)
           /\ (DictAt(Tb, k) /\ DictAt(U, k)) =>
                 /\ IsDict(GetItem(R, k))
                 /\ FalsyPresent(KidsAt(Tb, k), KidsAt(U, k), KidsAt(R, k), path)

\* C6: a target key whose value is null, false, an empty mapping or an
\* empty sequence counts as present: an update for it is never recorded as
\* Added nor appended as a new key; it is recorded as Updated or, when both
\* values are mappings, merged recursively.
AbsenceIsMembership == Called => FalsyPresent(preT, LastU, Result, <<>>)

\* A merge whose update named a key the target held with a falsy terminal.
AbsenceWitness ==
    /\ Called
    /\ \E k \in KeySet(preT) \cap KeySet(LastU) :
          /\ Falsy(GetItem(preT, k))
          /\ ~IsDict(GetItem(preT, k))
          /\ UpdatedRec(<<k>>) \in Range(added_keys)

\* A merge whose update named a key the target held with an empty mapping,
\* with a non-empty mapping.
AbsenceEmptyDictWitness ==
    /\ Called
    /\ \E k \in KeySet(preT) \cap KeySet(LastU) :
          /\ DictAt(preT, k) /\ KidsAt(preT, k) = <<>>
          /\ DictAt(LastU, k) /\ KidsAt(LastU, k) # <<>>

----------------------------------------------------------------------------
(* C10: the update documents of earlier merges.                            *)

InitSeq ==
    /\ MergeInit(TargetDocs, {<<U1, U2>> : U1 \in UpdateDocs, U2 \in UpdateDocs})
    /\ BatchIdle

\* Merges of two update documents into one target, in any order.
SpecSeq == InitSeq /\ [][Next]_vars

\* C10: after any sequence of merges into the same target every update
\* document has the content it had when it was passed to its merge.
UpdatesUntouched ==
    \A i \in DOMAIN updates :
        i \in Range(calls) => Deep(heap, updates[i]) = passed[i]

----------------------------------------------------------------------------
(* Files: names, paths and contents.                                       *)

\* A lone surrogate: json.load takes the escape \ud800 of a JSON text, and
\* no UTF-8 file takes the character.
Surrogate == "\\ud800"

Absent == [kind |-> "absent", doc |-> <<>>]
Dir == [kind |-> "dir", doc |-> <<>>]
\* A text that is a JSON object; doc holds its pairs as the text has them.
Json(items) == [kind |-> "json", doc |-> items]
\* A text that is a JSON array.
ArrayText == [kind |-> "array", doc |-> <<>>]
\* A text that is no JSON.
Malformed == [kind |-> "malformed", doc |-> <<>>]
\* What an interrupted json.dump leaves: the beginning of a JSON text.
Truncated == [kind |-> "truncated", doc |-> <<>>]

AddDe == <<"add_", "de", ".json">>
AddIt == <<"add_", "it", ".json">>
AddNone == <<"add_", ".json">>
Notes == <<"notes", ".txt">>
SubAddIt == <<"sub", "/", "add_", "it", ".json">>
Gone == <<"add_", "fr", ".json">>
LocalesDir == <<"locales">>
LocaleDe == <<"locales", "/", "de", ".json">>
LocaleIt == <<"locales", "/", "it", ".json">>

Nested == << <<"a", Tree(<< <<"b", Term("2")>> >>)>> >>

\* What an add_*.json file may hold.
UpdateTexts ==
    { Json(Nested),
      Json(<<>>),
      Json(<< <<"b", Term("1")>>, <<"c", Term("1")>>, <<"b", Term("2")>> >>),
      Json(<< <<"c", Term(Surrogate)>> >>),
      ArrayText,
      Malformed }

\* What a locale file may hold.
TargetTexts ==
    { Json(<< <<"b", Term("null")>>, <<"a", Tree(<< <<"a", Term("1")>> >>)>> >>),
      Json(<< <<"a", Term("1")>> >>),
      ArrayText,
      Malformed }

\* os.path.exists(path)
Exists(d, path) == path \in DOMAIN d /\ d[path].kind # "absent"

\* os.path.isdir(path)
IsDir(d, path) == path \in DOMAIN d /\ d[path].kind = "dir"

\* os.path.basename(filename)
Basename(filename) ==
    LET slashes == {i \in 1..Len(filename) : filename[i] = "/"}
    IN IF slashes = {} THEN filename
       ELSE SubSeq(filename,
                   (CHOOSE i \in slashes : \A j \in slashes : j <= i) + 1,
                   Len(filename))

None == <<"None">>

\* extract_locale_from_filename: 'add_it.json' -> 'it'
extract_locale_from_filename(filename) ==
    LET basename == Basename(filename)
    IN IF /\ Len(basename) >= 2
          /\ basename[1] = "add_"
          /\ basename[Len(basename)] = ".json"
       THEN SubSeq(basename, 2, Len(basename) - 1)
       ELSE None

\* not locale
NotLocale(locale) == locale = None \/ locale = <<>>

\* A target path that does not take up the locale code.
TargetFileShared(locales_dir, locale) == locales_dir \o <<"/", "it", ".json">>

\* os.path.join(locales_dir, f"{locale}.json")
TargetFile(locales_dir, locale) == locales_dir \o <<"/">> \o locale \o <<".json">>

\* The order of the first characters of the pieces names are made of.
CharRank(piece) ==
    CASE piece = ".json" -> 1
      [] piece = "add_" -> 2
      [] piece = "de" -> 3
      [] piece = "fr" -> 4
      [] piece = "it" -> 5
      [] OTHER -> 6

RECURSIVE StrLess(_, _)
\* a < b on Python strs
StrLess(a, b) ==
    IF a = <<>> THEN b # <<>>
    ELSE IF b = <<>> THEN FALSE
    ELSE IF a[1] = b[1] THEN StrLess(Tail(a), Tail(b))
    ELSE CharRank(a[1]) < CharRank(b[1])

RECURSIVE Sorted(_)
\* sorted(names)
Sorted(names) ==
    IF names = {} THEN <<>>
    ELSE LET first == CHOOSE x \in names :
                          \A y \in names \ {x} : StrLess(x, y)
         IN <<first>> \o Sorted(names \ {first})

\* glob.glob("add_*.json"): the files of the current directory of that form
Glob(d) ==
    {path \in DOMAIN d :
        /\ Exists(d, path)
        /\ Basename(path) = path
        /\ Len(path) >= 2
        /\ path[1] = "add_"
        /\ path[Len(path)] = ".json"}

RECURSIVE Encodable(_)
\* Every string of the document can be written to a UTF-8 file.
Encodable(items) ==
    \A i \in 1..Len(items) :
        IF IsDict(items[i][2]) THEN Encodable(items[i][2].kids)
        ELSE items[i][2].val # Surrogate

NoData == [kind |-> "none", id |-> 0]

\* load_json: the parsed document as a new object, or the exception.
load_json(d, h, filepath) ==
    IF ~Exists(d, filepath)
    THEN [exc |-> "FileNotFoundError", heap |-> h, data |-> NoData]
    ELSE IF d[filepath].kind = "json"
    THEN LET a == Alloc(h, d[filepath].doc)
         IN [exc |-> "", heap |-> a.heap, data |-> [kind |-> "dict", id |-> a.id]]
    ELSE IF d[filepath].kind = "array"
    THEN [exc |-> "", heap |-> h, data |-> [kind |-> "list", id |-> 0]]
    ELSE IF d[filepath].kind = "dir"
    THEN [exc |-> "IsADirectoryError", heap |-> h, data |-> NoData]
    ELSE [exc |-> "JSONDecodeError", heap |-> h, data |-> NoData]

\* save_json: open(filepath, 'w') empties the file, json.dump fills it, and
\* a string that UTF-8 cannot encode ends the dump part way.
save_json(d, h, filepath, data) ==
    IF data.kind = "list"
    THEN [exc |-> "", disk |-> [d EXCEPT ![filepath] = ArrayText]]
    ELSE IF Encodable(Deep(h, data.id))
    THEN [exc |-> "", disk |-> [d EXCEPT ![filepath] = Json(Deep(h, data.id))]]
    ELSE [exc |-> "UnicodeEncodeError",
          disk |-> [d EXCEPT ![filepath] = Truncated]]

\* merge_recursive on what load_json returned: a JSON array has no items()
\* and takes no str index.
MergeLoaded(h, target_data, update_data) ==
    IF update_data.kind # "dict"
    THEN [exc |-> "AttributeError", heap |-> h, keys |-> <<>>]
    ELSE IF target_data.kind # "dict"
    THEN IF h[update_data.id] = <<>>
         THEN [exc |-> "", heap |-> h, keys |-> <<>>]
         ELSE [exc |-> "TypeError", heap |-> h, keys |-> <<>>]
    ELSE LET r == merge_recursive(h, target_data.id, update_data.id)
         IN [exc |-> "", heap |-> r.heap, keys |-> r.keys]

\* Only the first except clause of process_file.
HandlerJsonOnly(exc) ==
    IF exc = "JSONDecodeError" THEN <<"JSON Error in">> ELSE <<"uncaught">>

\* The except clauses of process_file: which message an exception raised
\* in the try block turns into.
Handler(exc) ==
    IF exc = "JSONDecodeError" THEN <<"JSON Error in">>
    ELSE IF exc \in {"FileNotFoundError", "IsADirectoryError", "AttributeError",
                     "TypeError", "UnicodeEncodeError"}
    THEN <<"Error processing">>
    ELSE <<"uncaught">>

----------------------------------------------------------------------------
(* main and process_file.                                                  *)

NewCall ==
    [pc |-> "call", target_file |-> <<>>, target_data |-> NoData,
     update_data |-> NoData, keys |-> <<>>, before |-> Absent, writes |-> 0]

Failure(update_file, message) ==
    [file |-> update_file, success |-> FALSE, message |-> message,
     target |-> <<>>, keys |-> <<>>]

Success(update_file, target_file, keys) ==
    [file |-> update_file, success |-> TRUE, message |-> <<>>,
     target |-> target_file, keys |-> keys]

BatchInit ==
    /\ \E de, it \in UpdateTexts \cup {Absent}, none \in {Absent, Json(<<>>)},
          locales \in {Dir, Absent}, tde, tit \in TargetTexts \cup {Absent} :
          /\ locales = Absent => (tde = Absent /\ tit = Absent)
          /\ disk = (AddDe :> de) @@ (AddIt :> it) @@ (AddNone :> none)
                    @@ (Notes :> Json(Nested)) @@ (SubAddIt :> Json(Nested))
                    @@ (LocalesDir :> locales)
                    @@ (LocaleDe :> tde) @@ (LocaleIt :> tit)
    /\ disk0 = disk
    /\ argv \in {<<>>, <<AddIt>>, <<Notes>>, <<SubAddIt>>, <<Gone>>}
    /\ pc = "start"
    /\ update_files = <<>>
    /\ w = <<>>
    /\ results = <<>>
    /\ summary = <<>>
    /\ heap = <<>>
    /\ target = 0 /\ updates = <<>> /\ calls = <<>> /\ added_keys = <<>>
    /\ preT = <<>> /\ passed = <<>>

\* main up to the loop: the locales directory, then the files to process.
Main_Start ==
    /\ pc = "start"
    /\ LET files == IF Len(argv) = 1 THEN <<argv[1]>> ELSE Sorted(Glob(disk))
           stop == \/ ~IsDir(disk, LocalesDir)
                   \/ Len(argv) = 1 /\ ~Exists(disk, argv[1])
                   \/ Len(argv) # 1 /\ files = <<>>
       IN IF stop
          THEN /\ pc' = "exit1"
               /\ UNCHANGED <<update_files, w>>
          ELSE /\ pc' = "loop"
               /\ update_files' = files
               /\ w' = [i \in 1..Len(files) |-> NewCall]
    /\ UNCHANGED <<heap, disk, disk0, argv, results, summary>>
    /\ UNCHANGED mvars

\* process_file returns: main appends the result.
Return(i, result) ==
    /\ results' = Append(results, result)
    /\ UNCHANGED <<pc, update_files, disk0, argv, summary>>
    /\ UNCHANGED mvars

\* An exception raised in the try block of call i.
Raise(i, exc) ==
    IF Handler(exc) = <<"uncaught">>
    THEN /\ pc' = "crashed"
         /\ w' = [w EXCEPT ![i].pc = "raised"]
         /\ UNCHANGED <<results, update_files, disk0, argv, summary>>
         /\ UNCHANGED mvars
    ELSE /\ w' = [w EXCEPT ![i].pc = "returned"]
         /\ Return(i, Failure(update_files[i], Handler(exc)))

\* process_file up to the try block: the locale code and the target file.
PF_Resolve(i) ==
    /\ pc = "loop" /\ w[i].pc = "call"
    /\ LET locale == extract_locale_from_filename(update_files[i])
           target_file == TargetFile(LocalesDir, locale)
       IN IF NotLocale(locale)
          THEN /\ w' = [w EXCEPT ![i].pc = "returned"]
               /\ Return(i, Failure(update_files[i], <<"Invalid filename format">>))
          ELSE IF ~Exists(disk, target_file)
          THEN /\ w' = [w EXCEPT ![i].pc = "returned",
                                 ![i].target_file = target_file]
               /\ Return(i, Failure(update_files[i], <<"Target file not found">>))
          ELSE /\ w' = [w EXCEPT ![i].pc = "try",
                                 ![i].target_file = target_file,
                                 ![i].before = disk[target_file]]
               /\ UNCHANGED <<results, pc, update_files, disk0, argv, summary>>
               /\ UNCHANGED mvars
    /\ UNCHANGED <<heap, disk>>

\* target_data = load_json(target_file)
PF_LoadTarget(i) ==
    /\ pc = "loop" /\ w[i].pc = "try"
    /\ LET r == load_json(disk, heap, w[i].target_file)
       IN /\ heap' = r.heap
          /\ IF r.exc # ""
             THEN Raise(i, r.exc)
             ELSE /\ w' = [w EXCEPT ![i].pc = "loaded_target",
                                    ![i].target_data = r.data]
                  /\ UNCHANGED <<results, pc, update_files, disk0, argv, summary>>
                  /\ UNCHANGED mvars
    /\ UNCHANGED disk

\* update_data = load_json(update_file)
PF_LoadUpdate(i) ==
    /\ pc = "loop" /\ w[i].pc = "loaded_target"
    /\ LET r == load_json(disk, heap, update_files[i])
       IN /\ heap' = r.heap
          /\ IF r.exc # ""
             THEN Raise(i, r.exc)
             ELSE /\ w' = [w EXCEPT ![i].pc = "loaded_update",
                                    ![i].update_data = r.data]
                  /\ UNCHANGED <<results, pc, update_files, disk0, argv, summary>>
                  /\ UNCHANGED mvars
    /\ UNCHANGED disk

\* added_keys = merge_recursive(target_data, update_data)
PF_Merge(i) ==
    /\ pc = "loop" /\ w[i].pc = "loaded_update"
    /\ LET r == MergeLoaded(heap, w[i].target_data, w[i].update_data)
       IN /\ heap' = r.heap
          /\ IF r.exc # ""
             THEN Raise(i, r.exc)
             ELSE /\ w' = [w EXCEPT ![i].pc = "merged", ![i].keys = r.keys]
                  /\ UNCHANGED <<results, pc, update_files, disk0, argv, summary>>
                  /\ UNCHANGED mvars
    /\ UNCHANGED disk

\* save_json(target_file, target_data) and the return of the result
PF_Save(i) ==
    /\ pc = "loop" /\ w[i].pc = "merged"
    /\ LET r == save_json(disk, heap, w[i].target_file, w[i].target_data)
       IN /\ disk' = r.disk
          /\ IF r.exc # ""
             THEN IF Handler(r.exc) = <<"uncaught">>
                  THEN /\ pc' = "crashed"
                       /\ w' = [w EXCEPT ![i].pc = "raised",
                                         ![i].writes = w[i].writes + 1]
                       /\ UNCHANGED <<results, update_files, disk0, argv, summary>>
                       /\ UNCHANGED mvars
                  ELSE /\ w' = [w EXCEPT ![i].pc = "returned",
                                         ![i].writes = w[i].writes + 1]
                       /\ Return(i, Failure(update_files[i], Handler(r.exc)))
             ELSE /\ w' = [w EXCEPT ![i].pc = "returned",
                                    ![i].writes = w[i].writes + 1]
                  /\ Return(i, Success(update_files[i], w[i].target_file,
                                       w[i].keys))
    /\ UNCHANGED heap

RECURSIVE SumKeys(_)
SumKeys(rs) ==
    IF rs = <<>> THEN 0
    ELSE (IF rs[1].success THEN Len(rs[1].keys) ELSE 0) + SumKeys(Tail(rs))

\* main after the loop: the summary.
Main_Summary ==
    /\ pc = "loop"
    /\ Len(results) = Len(update_files)
    /\ pc' = "summary"
    /\ LET successful == Cardinality({j \in 1..Len(results) : results[j].success})
       IN summary' = [successful |-> successful,
                      failed |-> Len(results) - successful,
                      total_keys |-> SumKeys(results)]
    /\ UNCHANGED <<heap, disk, disk0, argv, update_files, w, results>>
    /\ UNCHANGED mvars

\* for update_file in update_files: call i starts when call i - 1 returned.
InTurn(i) == i = Len(results) + 1

BatchNext ==
    \/ Main_Start
    \/ \E i \in DOMAIN w : InTurn(i) /\ PF_Resolve(i)
    \/ \E i \in DOMAIN w : InTurn(i) /\ PF_LoadTarget(i)
    \/ \E i \in DOMAIN w : InTurn(i) /\ PF_LoadUpdate(i)
    \/ \E i \in DOMAIN w : InTurn(i) /\ PF_Merge(i)
    \/ \E i \in DOMAIN w : InTurn(i) /\ PF_Save(i)
    \/ Main_Summary

\* main as the source runs it.
SpecBatch == BatchInit /\ [][BatchNext]_vars

\* The calls of one batch run side by side, their steps in any order.
ParNext ==
    \/ Main_Start
    \/ \E i \in DOMAIN w : PF_Resolve(i)
    \/ \E i \in DOMAIN w : PF_LoadTarget(i)
    \/ \E i \in DOMAIN w : PF_LoadUpdate(i)
    \/ \E i \in DOMAIN w : PF_Merge(i)
    \/ \E i \in DOMAIN w : PF_Save(i)
    \/ Main_Summary

SpecPar == BatchInit /\ [][ParNext]_vars

----------------------------------------------------------------------------
(* What one update file alone asks for, read off the files as found.       *)

NoTarget == <<>>

\* The locale file of an update file named add_<code>.json.
OwnTarget(f) ==
    LET b == Basename(f)
    IN IF Len(b) = 3 /\ b[1] = "add_" /\ b[3] = ".json"
       THEN <<"locales", "/", b[2], ".json">>
       ELSE NoTarget

\* Update document u merged into target document t, both fresh.
MergedAlone(t, u) ==
    LET a == Alloc(<<>>, t)
        b == Alloc(a.heap, u)
        r == merge_recursive(b.heap, a.id, b.id)
    IN [doc |-> Deep(r.heap, a.id), keys |-> r.keys]

Outcome(success, message, keys, content) ==
    [success |-> success, message |-> message, keys |-> keys,
     content |-> content]

\* The result of processing f alone on the files d, and what its locale
\* file holds afterwards.
Alone(d, f) ==
    LET t == OwnTarget(f)
    IN IF t = NoTarget
       THEN Outcome(FALSE, <<"Invalid filename format">>, <<>>, Absent)
       ELSE IF ~Exists(d, t)
       THEN Outcome(FALSE, <<"Target file not found">>, <<>>, Absent)
       ELSE IF d[t].kind \notin {"json", "array"}
       THEN Outcome(FALSE, <<"JSON Error in">>, <<>>, d[t])
       ELSE IF d[f].kind \notin {"json", "array"}
       THEN Outcome(FALSE, <<"JSON Error in">>, <<>>, d[t])
       ELSE IF d[f].kind = "array"
       THEN Outcome(FALSE, <<"Error processing">>, <<>>, d[t])
       ELSE IF d[t].kind = "array"
       THEN IF d[f].doc = <<>>
            THEN Outcome(TRUE, <<>>, <<>>, ArrayText)
            ELSE Outcome(FALSE, <<"Error processing">>, <<>>, d[t])
       ELSE LET m == MergedAlone(d[t].doc, d[f].doc)
            IN IF Encodable(m.doc)
               THEN Outcome(TRUE, <<>>, m.keys, Json(m.doc))
               ELSE Outcome(FALSE, <<"Error processing">>, <<>>, Truncated)

RECURSIVE Reach(_, _)
\* The dict objects a document is made of.
Reach(h, id) ==
    {id} \cup UNION {Reach(h, h[id][n][2].ref) :
                        n \in {m \in 1..Len(h[id]) : IsDict(h[id][m][2])}}

\* The objects of the two documents call i has loaded.
Objects(i) ==
    (IF w[i].target_data.kind = "dict"
     THEN Reach(heap, w[i].target_data.id) ELSE {})
    \cup (IF w[i].update_data.kind = "dict"
          THEN Reach(heap, w[i].update_data.id) ELSE {})

\* The result main holds for update file number i, if the call returned.
HasResult(i) == \E j \in 1..Len(results) : results[j].file = update_files[i]
ResultOf(i) ==
    results[CHOOSE j \in 1..Len(results) : results[j].file = update_files[i]]

----------------------------------------------------------------------------
(* C7: the merges of a batch are independent.                              *)

\* C7: with the calls of a batch run in any order and interleaving, each
\* update file has a locale file of its own, each call's result and the
\* final content of its locale file are what that update file alone gives
\* on the files as found, a locale file is as found until its own call
\* saves it, and no two calls hold an object in common.
MergesIndependent ==
    pc \in {"loop", "summary"} =>
        /\ \A i, j \in DOMAIN w :
              i # j =>
                 /\ Objects(i) \cap Objects(j) = {}
                 /\ w[i].target_file # <<>> =>
                       /\ w[i].target_file # w[j].target_file
                       /\ w[i].target_file # update_files[j]
        /\ \A i \in DOMAIN w :
              LET alone == Alone(disk0, update_files[i])
              IN /\ w[i].target_file \in {<<>>, OwnTarget(update_files[i])}
                 /\ HasResult(i) =>
                       /\ ResultOf(i).success = alone.success
                       /\ ResultOf(i).message = alone.message
                       /\ ResultOf(i).keys = alone.keys
                       /\ ResultOf(i).success =>
                             ResultOf(i).target = OwnTarget(update_files[i])
                       /\ Exists(disk0, OwnTarget(update_files[i])) =>
                             disk[OwnTarget(update_files[i])] = alone.content
                 /\ (w[i].writes = 0 /\ OwnTarget(update_files[i]) \in DOMAIN disk) =>
                       disk[OwnTarget(update_files[i])] =
                          disk0[OwnTarget(update_files[i])]

\* Two calls that both changed their locale file, the second file's call
\* returning first, and having loaded before the first one saved.
MergesIndependentWitness ==
    /\ pc = "summary"
    /\ Len(update_files) >= 2
    /\ Len(results) >= 2
    /\ \E i, j \in 1..Len(results) :
          /\ i < j
          /\ results[i].success /\ results[j].success
          /\ results[i].keys # <<>> /\ results[j].keys # <<>>
          /\ StrLess(results[j].file, results[i].file)
          /\ disk[results[i].target] # disk0[results[i].target]
          /\ disk[results[j].target] # disk0[results[j].target]

----------------------------------------------------------------------------
(* C8: one file's failure stays with that file.                            *)

\* C8: in a run over the update files, no failure of a file ends the run:
\* each file processed so far has exactly one result, in order, a result is
\* a failure exactly when that file alone fails, the loop can always go on,
\* and at the summary every update file has its result and successful +
\* failed is the number of update files.
FailureIsolated ==
    /\ pc # "crashed"
    /\ pc = "loop" => ENABLED BatchNext
    /\ pc \in {"loop", "summary"} =>
          /\ Len(results) <= Len(update_files)
          /\ \A j \in 1..Len(results) :
                /\ results[j].file = update_files[j]
                /\ results[j].success = Alone(disk0, update_files[j]).success
                /\ results[j].message = Alone(disk0, update_files[j]).message
    /\ pc = "summary" =>
          /\ Len(results) = Len(update_files)
          /\ \A i \in DOMAIN w : w[i].pc = "returned"
          /\ summary.successful + summary.failed = Len(update_files)
          /\ summary.successful =
                Cardinality({j \in 1..Len(results) : results[j].success})

\* A summary of three files: the first two failed, one of them on an
\* exception of the merge, and the third succeeded.
FailureIsolatedWitness ==
    /\ pc = "summary"
    /\ Len(results) = 3
    /\ ~results[1].success /\ ~results[2].success /\ results[3].success
    /\ results[2].message = <<"Error processing">>
    /\ summary.successful = 1 /\ summary.failed = 2

----------------------------------------------------------------------------
(* C9: the locale file is written on the success path only.                *)

\* C9: a call of process_file writes its locale file at most once, and only
\* with both documents loaded and the merge done; no other file changes;
\* and when the call returns a failure its locale file holds what it held
\* before the call.
WrittenOnSuccessOnly ==
    /\ \A i \in DOMAIN w :
          /\ w[i].writes <= 1
          /\ w[i].writes = 1 =>
                /\ w[i].target_data.kind # "none"
                /\ w[i].update_data.kind # "none"
                /\ w[i].pc \in {"returned", "raised"}
          /\ (HasResult(i) /\ ~ResultOf(i).success
                /\ w[i].target_file \in DOMAIN disk) =>
                disk[w[i].target_file] = w[i].before
    /\ \A path \in DOMAIN disk :
          disk[path] # disk0[path] =>
             \E i \in DOMAIN w : w[i].writes = 1 /\ w[i].target_file = path

====
